---- MODULE Spec2Model ----
(***************************************************************************)
(* Model of examples/PubNubJson/PubNubJson.ino: one sketch whose loop()    *)
(* publishes a status document, subscribes, parses the reply, dumps it and *)
(* drives PWM pins from it.                                                *)
(*                                                                         *)
(* The state machine follows loop() statement by statement; each external  *)
(* call whose result the sketch branches on (publish, subscribe,           *)
(* deserializeJson) is a step with one action per outcome.  `log` is the   *)
(* trace of the current invocation of loop(): every Serial print, every    *)
(* call to the network client, every delay and every pin write, in program *)
(* order.  It is emptied when loop() is entered again.                     *)
(***************************************************************************)
EXTENDS Integers, Sequences, FiniteSets, TLC

VARIABLES
    pc,            \* position inside loop(); "idle" = between two invocations
    esp32,         \* build flag ARDUINO_ARCH_ESP32 (fixed for a run)
    samples,       \* values analogRead(0..5) returned to the current createMessage
    msg,           \* what serializeJson wrote to output at line 177
    pubClient,     \* handle returned by PubNub.publish: "none" | "open" | "stopped"
    subClient,     \* handle returned by PubNub.subscribe: "none" | "open" | "stopped"
    pubjd,         \* inbound document held by pubjd after deserializeJson
    i,             \* dumpMessage: size_t i
    sender_found,  \* dumpMessage: bool sender_found
    pins,          \* output value last written to each pin by analogWrite
    log            \* trace of the current invocation of loop()

vars == <<pc, esp32, samples, msg, pubClient, subClient, pubjd, i,
          sender_found, pins, log>>

(***************************************************************************)
(* Bounds of the model.                                                    *)
(***************************************************************************)
\* longest inbound array of messages that is explored
MaxMsgs == 2

(***************************************************************************)
(* Program constants.                                                      *)
(***************************************************************************)
\* const static byte mac[] = { 0xDE, 0xAD, 0xBE, 0xEF, 0xFE, 0xED }
mac == <<222, 173, 190, 239, 254, 237>>

\* for (int i = 0; i < 6; i++) analog.add(analogRead(i))
NumAnalog == 6

\* const static int pins[] = { 8, 9 }
pwmPins == <<8, 9>>

\* int const maxmsg = 2
maxmsg == 2

\* delay(1000) after every diagnostic that gives the iteration up
RetryDelay == 1000

\* delay(10000) closing a completed iteration
LoopDelay == 10000

\* int const slack = 100: bytes of the pool beyond the slots
slack == 100

\* sizeof(VariantSlot), the unit of JSON_OBJECT_SIZE and JSON_ARRAY_SIZE, in
\* bytes (that of a 32-bit board)
SlotSize == 16

\* JSON_OBJECT_SIZE(n) and JSON_ARRAY_SIZE(n): the bytes of n members or n
\* elements, one slot each.
JSON_OBJECT_SIZE(n) == n * SlotSize
JSON_ARRAY_SIZE(n) == n * SlotSize

\* int const json_elem_size = 2 * JSON_OBJECT_SIZE(2) + JSON_ARRAY_SIZE(6)
json_elem_size == 2 * JSON_OBJECT_SIZE(2) + JSON_ARRAY_SIZE(NumAnalog)

\* int const capacity = maxmsg * json_elem_size + slack: the bytes of the one
\* pool of pubjd, from which slots and copied strings are both taken.
capacity == maxmsg * json_elem_size + slack

(***************************************************************************)
(* JSON values as ArduinoJson holds them.                                  *)
(***************************************************************************)
JNull == [t |-> "null"]
JInt(v) == [t |-> "int", v |-> v]
\* a string value holds its characters
JStr(s) == [t |-> "str", s |-> s]
JBool(b) == [t |-> "bool", b |-> b]
\* the float w + m/1000, m of the sign of w
JFloat(w, m) == [t |-> "float", w |-> w, m |-> m]
JArr(e) == [t |-> "arr", e |-> e]
JObj(m) == [t |-> "obj", m |-> m]

\* JsonObject::isNull() / JsonArray::isNull() of a variant converted to an
\* object or an array: the reference is null unless the variant has that type.
IsObj(x) == x.t = "obj"
IsArr(x) == x.t = "arr"

\* obj[key]: the member, or a null variant when obj is null or has no such key.
Get(obj, key) == IF IsObj(obj) /\ key \in DOMAIN obj.m THEN obj.m[key] ELSE JNull

\* JsonObject::containsKey(key)
containsKey(obj, key) == IsObj(obj) /\ key \in DOMAIN obj.m

\* JsonVariant::is<int>()
IsInt(x) == x.t = "int"

\* snprintf(pinstr, sizeof(pinstr), "%d", pins[i]) for a pin below 100
Digit == <<"0", "1", "2", "3", "4", "5", "6", "7", "8", "9">>
RECURSIVE DecStr(_)
DecStr(n) == IF n < 10 THEN Digit[n + 1]
             ELSE DecStr(n \div 10) \o Digit[(n % 10) + 1]

\* isdigit(c) and c - '0'
IsDigit(c) == \E d \in 1..10 : Digit[d] = c
DigitVal(c) == (CHOOSE d \in 1..10 : Digit[d] = c) - 1

\* the digits loop of the library's string to integer conversion:
\* result = T(result * 10 + (*s - '0')) while isdigit(*s), for digits whose
\* value fits an int (beyond that the C++ arithmetic overflows)
RECURSIVE ParseDigits(_, _, _)
ParseDigits(s, k, acc) ==
    IF k > Len(s) \/ ~IsDigit(s[k]) THEN acc
    ELSE ParseDigits(s, k + 1, acc * 10 + DigitVal(s[k]))

\* as<int>() of a string: 1 for one that starts with 't' ("true"); else an
\* optional sign, then the leading digits; what follows them is ignored, and
\* no digits give 0.
ParseInteger(s) ==
    IF s = <<>> THEN 0
    ELSE IF s[1] = "t" THEN 1
    ELSE IF s[1] = "-" THEN 0 - ParseDigits(s, 2, 0)
    ELSE IF s[1] = "+" THEN ParseDigits(s, 2, 0)
    ELSE ParseDigits(s, 1, 0)

\* JsonVariant::as<int>(): the integer; a float truncated; a boolean as 0 or
\* 1; a string converted; 0 for null, an array or an object.
AsInt(x) ==
    IF x.t = "int" THEN x.v
    ELSE IF x.t = "float" THEN x.w
    ELSE IF x.t = "bool" THEN (IF x.b THEN 1 ELSE 0)
    ELSE IF x.t = "str" THEN ParseInteger(x.s)
    ELSE 0

\* pubjd.as<JsonArray>() as the range-for of dumpMessage sees it: a null array
\* yields no element.
Elements(doc) == IF IsArr(doc) THEN doc.e ELSE <<>>

(***************************************************************************)
(* Trace events.                                                           *)
(***************************************************************************)
Ev(k, a, b) == [k |-> k, a |-> a, b |-> b]
E0(k) == Ev(k, 0, 0)


\* the literal "Arduino" of line 68
Arduino == <<"A", "r", "d", "u", "i", "n", "o">>

(***************************************************************************)
(* Message Builder.                                                        *)
(***************************************************************************)
\* The loop of createMessage: analog.add(analogRead(j)) for j = 0..5.  An add
\* takes one slot of the pool and is dropped when the pool has no room for it.
\* used: bytes of the pool taken so far.
RECURSIVE AddSamples(_, _, _, _)
AddSamples(rd, j, arr, used) ==
    IF j >= NumAnalog THEN arr
    ELSE IF used + SlotSize <= capacity
         THEN AddSamples(rd, j + 1, Append(arr, JInt(rd[j])), used + SlotSize)
         ELSE AddSamples(rd, j + 1, arr, used)

\* The body of createMessage, lines 65-74: the document it builds in its
\* parameter jd.  rd[j] is what analogRead(j) returns.  Slots are taken in
\* program order: "sender", "name", "mac_last_byte", "analog", then one per
\* sample; a member whose slot cannot be allocated is not created.  The keys
\* and "Arduino" are literals, stored by pointer.
buildMessage(rd) ==
    LET senderKeys == {n \in {"name", "mac_last_byte"} :
                          \/ n = "name" /\ 2 * SlotSize <= capacity
                          \/ n = "mac_last_byte" /\ 3 * SlotSize <= capacity}
        sender == JObj([n \in senderKeys |->
                          IF n = "name" THEN JStr(Arduino)
                          ELSE JInt(mac[5 + 1])])
        analog == JArr(AddSamples(rd, 0, <<>>, 4 * SlotSize))
        keys == {k \in {"sender", "analog"} :
                    \/ k = "sender" /\ 1 * SlotSize <= capacity
                    \/ k = "analog" /\ 4 * SlotSize <= capacity}
    IN  JObj([k \in keys |-> IF k = "sender" THEN sender ELSE analog])

\* bytes that are no JSON text
JRaw(s) == [t |-> "raw", s |-> s]

\* What serializeJson can write when it reads through a reference into a
\* dead object in place of the document doc: any value or any bytes.  One of
\* each kind stands for the kind: null, a number, a string, an empty array,
\* an empty object, an object with an empty key, parts of doc, doc with other
\* samples, and bytes of an unrelated string.
Garbled(doc) ==
    { JNull,
      JInt(0),
      JStr(<<>>),
      JArr(<<>>),
      JObj(<<>>),
      JObj([k \in {""} |-> JNull]),
      JObj([k \in {"sender"} |-> Get(doc, "sender")]),
      JObj([k \in {"sender"} |-> JObj([n \in {"name"} |-> JStr(Arduino)])]),
      JObj([k \in {"sender", "analog"} |->
              IF k = "sender" THEN Get(doc, "sender")
              ELSE JArr([j \in 1..NumAnalog |-> JInt(0)])]),
      JRaw(<<"%", "d", "|", "s", "u", "b", "|", "%", "d">>) } \ {doc}

\* createMessage(JsonDocument jd) as its caller sees it.  jd is passed by
\* value: the document is built in that copy, and the JsonObject returned
\* refers to the copy, which is gone when loop() reads the result at line 177.
\* What that read finds depends on the build: the document intact, anything
\* else, or a trap that ends the sketch (ok = FALSE).
createMessage(rd) ==
    {[ok |-> TRUE, doc |-> buildMessage(rd)]}
        \cup {[ok |-> TRUE, doc |-> g] : g \in Garbled(buildMessage(rd))}
        \cup {[ok |-> FALSE, doc |-> JNull]}

(***************************************************************************)
(* PWM Command Applier.                                                    *)
(***************************************************************************)
\* The for loop of processPwmInfo over pins[], from index idx on.
RECURSIVE PwmLoop(_, _, _, _, _)
PwmLoop(pwm, idx, pinsv, out, esp) ==
    IF idx > Len(pwmPins) THEN [pins |-> pinsv, out |-> out]
    ELSE LET p == pwmPins[idx]
             entry == Get(pwm, DecStr(p))
             val == AsInt(entry)
         IN  IF ~IsInt(entry)
             THEN PwmLoop(pwm, idx + 1, pinsv, out, esp)
             ELSE IF esp
                  THEN PwmLoop(pwm, idx + 1, pinsv,
                               out \o <<Ev(" setting pin ", p, 0),
                                        Ev(" to value ", val, 0)>>, esp)
                  ELSE PwmLoop(pwm, idx + 1, [pinsv EXCEPT ![p] = val],
                               out \o <<Ev(" setting pin ", p, 0),
                                        Ev(" to value ", val, 0),
                                        Ev("pinMode", p, 0),
                                        Ev("analogWrite", p, val)>>, esp)

\* processPwmInfo with the isNull() test dropped: a missing pwm is walked like
\* an empty one.
processPwmInfo_NoNullCheck(item, pinsv, esp) ==
    PwmLoop(Get(item, "pwm"), 1, pinsv, <<>>, esp)

\* processPwmInfo writing a non-integer entry as well (is<int>() test dropped).
processPwmInfo_NoIntCheck(item, pinsv, esp) ==
    LET pwm == Get(item, "pwm")
        asInts == IF IsObj(pwm)
                  THEN JObj([k \in DOMAIN pwm.m |-> JInt(AsInt(pwm.m[k]))])
                  ELSE pwm
    IN  IF ~IsObj(pwm)
        THEN [pins |-> pinsv, out |-> <<E0("no pwm data")>>]
        ELSE PwmLoop(asInts, 1, pinsv, <<>>, esp)

\* processPwmInfo(item): the pins after it and what it printed and wrote.
processPwmInfo(item, pinsv, esp) ==
    LET pwm == Get(item, "pwm")
    IN  IF ~IsObj(pwm)
        THEN [pins |-> pinsv, out |-> <<E0("no pwm data")>>]
        ELSE PwmLoop(pwm, 1, pinsv, <<>>, esp)

(***************************************************************************)
(* Subscription Dumper: the part of the loop body after processPwmInfo.    *)
(* ret: dumpMessage returns; found: sender_found is set.                   *)
(***************************************************************************)
\* dumpSender with the return after "analog not acquired" missing
dumpSender_AnalogContinue(obj) ==
    LET sender == Get(obj, "sender")
        analog == Get(obj, "analog")
    IN  IF ~IsObj(sender) THEN [out |-> <<>>, ret |-> FALSE, found |-> FALSE]
        ELSE IF ~containsKey(sender, "mac_last_byte")
        THEN [out |-> <<E0(" mac_last_byte: "), E0("mac_last_byte not acquired"),
                        Ev("delay", RetryDelay, 0)>>,
              ret |-> TRUE, found |-> TRUE]
        ELSE IF ~IsArr(analog)
        THEN [out |-> <<E0(" mac_last_byte: "),
                        Ev("print mac_last_byte", AsInt(Get(sender, "mac_last_byte")), 0),
                        E0(" A2: "), E0("analog not acquired"),
                        Ev("delay", RetryDelay, 0)>>,
              ret |-> FALSE, found |-> TRUE]
        ELSE IF Len(analog.e) < 3
        THEN [out |-> <<E0(" mac_last_byte: "),
                        Ev("print mac_last_byte", AsInt(Get(sender, "mac_last_byte")), 0),
                        E0(" A2: "), E0("analog[2] not acquired"),
                        Ev("delay", RetryDelay, 0)>>,
              ret |-> TRUE, found |-> TRUE]
        ELSE [out |-> <<E0(" mac_last_byte: "),
                        Ev("print mac_last_byte", AsInt(Get(sender, "mac_last_byte")), 0),
                        E0(" A2: "), Ev("print analog[2]", AsInt(analog.e[3]), 0),
                        E0("println")>>,
              ret |-> FALSE, found |-> TRUE]

\* the loop body of dumpMessage from the sender lookup on
dumpSender(obj) ==
    LET sender == Get(obj, "sender")
        analog == Get(obj, "analog")
    IN  IF ~IsObj(sender) THEN [out |-> <<>>, ret |-> FALSE, found |-> FALSE]
        ELSE IF ~containsKey(sender, "mac_last_byte")
        THEN [out |-> <<E0(" mac_last_byte: "), E0("mac_last_byte not acquired"),
                        Ev("delay", RetryDelay, 0)>>,
              ret |-> TRUE, found |-> TRUE]
        ELSE IF ~IsArr(analog)
        THEN [out |-> <<E0(" mac_last_byte: "),
                        Ev("print mac_last_byte", AsInt(Get(sender, "mac_last_byte")), 0),
                        E0(" A2: "), E0("analog not acquired"),
                        Ev("delay", RetryDelay, 0)>>,
              ret |-> TRUE, found |-> TRUE]
        ELSE IF Len(analog.e) < 3
        THEN [out |-> <<E0(" mac_last_byte: "),
                        Ev("print mac_last_byte", AsInt(Get(sender, "mac_last_byte")), 0),
                        E0(" A2: "), E0("analog[2] not acquired"),
                        Ev("delay", RetryDelay, 0)>>,
              ret |-> TRUE, found |-> TRUE]
        ELSE [out |-> <<E0(" mac_last_byte: "),
                        Ev("print mac_last_byte", AsInt(Get(sender, "mac_last_byte")), 0),
                        E0(" A2: "), Ev("print analog[2]", AsInt(analog.e[3]), 0),
                        E0("println")>>,
              ret |-> FALSE, found |-> TRUE]


(***************************************************************************)
(* Inputs: what the subscription can deliver.                              *)
(***************************************************************************)
\* every pin whose output is observed: the two target pins and one other
AllPins == {3, 8, 9}

\* what analogRead(0..5) can return during one createMessage: all channels at
\* either end of the range, and two readings that tell the channels apart
SampleVectors ==
    { [j \in 0..(NumAnalog - 1) |-> 0],
      [j \in 0..(NumAnalog - 1) |-> 1023],
      [j \in 0..(NumAnalog - 1) |-> 100 * j + 1],
      [j \in 0..(NumAnalog - 1) |-> 1023 - j] }

Absent == [t |-> "absent"]

Pwm8 == JObj([k \in {"8"} |-> JInt(200)])
Pwm389 == JObj([k \in {"3", "8", "9"} |->
                  IF k = "3" THEN JInt(77) ELSE IF k = "8" THEN JInt(200) ELSE JInt(100)])

\* the values of item["pwm"]: key missing, not an object, and objects with and
\* without integer entries for the target pins and for another pin
PwmChoices ==
    { Absent,
      JInt(5),
      Pwm8,
      JObj([k \in {"8", "9"} |-> IF k = "8" THEN JStr(<<"5", "0">>) ELSE JInt(100)]),
      Pwm389 }

Analog3 == JArr(<<JInt(1), JInt(2), JInt(3)>>)

\* item["sender"] and item["analog"] of a complete item
SenderComplete ==
    <<JObj([k \in {"name", "mac_last_byte"} |->
              IF k = "name" THEN JStr(Arduino) ELSE JInt(237)]), Analog3>>

\* the three incomplete shapes: no mac_last_byte, no analog, a short analog
SenderIncomplete ==
    { <<JObj([k \in {"name"} |-> JStr(Arduino)]), Analog3>>,
      <<JObj([k \in {"mac_last_byte"} |-> JInt(237)]), Absent>>,
      <<JObj([k \in {"mac_last_byte"} |-> JInt(237)]), JArr(<<JInt(1), JInt(2)>>)>> }

Item(p, s, a) ==
    LET val(k) == IF k = "pwm" THEN p ELSE IF k = "sender" THEN s ELSE a
    IN  JObj([k \in {k \in {"pwm", "sender", "analog"} : val(k) # Absent} |-> val(k)])

\* the elements of an inbound array: items without a sender under every pwm,
\* complete and incomplete items with and without a pwm command, an item
\* whose sender is no object, an item whose numbers come as strings, and an
\* element that is no object
Items ==
    {Item(p, Absent, Absent) : p \in PwmChoices}
        \cup {Item(p, SenderComplete[1], SenderComplete[2]) : p \in {Absent, Pwm389}}
        \cup {Item(Pwm8, sa[1], sa[2]) : sa \in SenderIncomplete}
        \cup {Item(Absent, JObj([k \in {"name"} |-> JStr(Arduino)]), Analog3),
              Item(Absent, JStr(<<"x">>), Analog3),
              Item(Absent,
                   JObj([k \in {"mac_last_byte"} |-> JStr(<<"4", "2">>)]),
                   JArr(<<JFloat(2, 500), JBool(TRUE), JStr(<<"7">>)>>)),
              JInt(7)}

\* the documents deserializeJson can yield: arrays of up to MaxMsgs items, and
\* one document that is no array.  Whether a payload parses (it is well formed
\* and fits the pool) is not computed: ParseOk and ParseFail are both possible
\* at every parse.
Docs ==
    {JArr(e) : e \in UNION {[1..n -> Items] : n \in 0..MaxMsgs}}
        \cup {JObj([k \in {"pwm"} |-> JInt(5)])}

(***************************************************************************)
(* Loop Driver.                                                            *)
(***************************************************************************)
Init ==
    /\ pc = "idle"
    /\ esp32 \in BOOLEAN
    /\ samples = <<>>
    /\ msg = JNull
    /\ pubClient = "none"
    /\ subClient = "none"
    /\ pubjd = JNull
    /\ i = 0
    /\ sender_found = FALSE
    /\ pins = [p \in AllPins |-> 0]
    /\ log = <<>>

\* loop() is entered: Ethernet.maintain(), the banner, and
\* serializeJson(createMessage(pubjd), output).  createMessage gets a copy of
\* pubjd that shares its buffer: pubjd itself is not written, the document an
\* earlier iteration parsed into the buffer is overwritten, and pubjd is not
\* read again before pubjd.clear().  If the read of the returned object traps,
\* the sketch ends there, before println(output).
LoopBegin ==
    /\ pc = "idle"
    /\ \E rd \in SampleVectors :
          \E r \in createMessage(rd) :
              /\ samples' = rd
              /\ msg' = r.doc
              /\ IF r.ok
                 THEN /\ log' = <<E0("Ethernet.maintain"), E0("====="),
                                  E0("publishing a message: "), E0("println(output)")>>
                      /\ pc' = "publish"
                 ELSE /\ log' = <<E0("Ethernet.maintain"), E0("====="),
                                  E0("publishing a message: ")>>
                      /\ pc' = "crashed"
    /\ pubjd' = JNull
    /\ pubClient' = "none"
    /\ subClient' = "none"
    /\ UNCHANGED <<esp32, i, sender_found, pins>>

PublishFail_FallThrough ==
    /\ pc = "publish"
    /\ log' = log \o <<Ev("publish", 0, 0), E0("publishing error"),
                       Ev("delay", RetryDelay, 0),
                       E0("waiting for a message (subscribe)")>>
    /\ samples' = <<>>
    /\ msg' = JNull
    /\ pc' = "subscribe"
    /\ UNCHANGED <<esp32, pubClient, subClient, pubjd, i, sender_found, pins>>

\* PubNub.publish returns no client: "publishing error", delay, return.
PublishFail ==
    /\ pc = "publish"
    /\ log' = log \o <<Ev("publish", 0, 0), E0("publishing error"),
                       Ev("delay", RetryDelay, 0)>>
    /\ samples' = <<>>
    /\ msg' = JNull
    /\ pc' = "idle"
    /\ UNCHANGED <<esp32, pubClient, subClient, pubjd, i, sender_found, pins>>

\* PubNub.publish returns a client.
PublishOk ==
    /\ pc = "publish"
    /\ log' = log \o <<Ev("publish", 1, 0)>>
    /\ pubClient' = "open"
    /\ pc' = "pub_stop"
    /\ UNCHANGED <<esp32, samples, msg, subClient, pubjd, i, sender_found, pins>>

\* client->stop(), the end of the publish block, and the first print of the
\* subscribe block.
PubStop ==
    /\ pc = "pub_stop"
    /\ pubClient' = "stopped"
    /\ log' = log \o <<E0("client->stop"), E0("waiting for a message (subscribe)")>>
    /\ samples' = <<>>
    /\ msg' = JNull
    /\ pc' = "subscribe"
    /\ UNCHANGED <<esp32, subClient, pubjd, i, sender_found, pins>>

\* PubNub.subscribe returns no client: "subscription error", delay, return.
SubscribeFail ==
    /\ pc = "subscribe"
    /\ log' = log \o <<Ev("subscribe", 0, 0), E0("subscription error"),
                       Ev("delay", RetryDelay, 0)>>
    /\ pc' = "idle"
    /\ UNCHANGED <<esp32, samples, msg, pubClient, subClient, pubjd, i,
                   sender_found, pins>>

\* PubNub.subscribe returns a client.
SubscribeOk ==
    /\ pc = "subscribe"
    /\ log' = log \o <<Ev("subscribe", 1, 0)>>
    /\ subClient' = "open"
    /\ pc' = "parse"
    /\ UNCHANGED <<esp32, samples, msg, pubClient, pubjd, i, sender_found, pins>>

ParseFail_Returns ==
    /\ pc = "parse"
    /\ pubjd' = JNull
    /\ log' = log \o <<Ev("deserializeJson", 0, 0),
                       E0("deserializeJson() failed with code "),
                       E0("println(error.c_str())"), Ev("delay", RetryDelay, 0)>>
    /\ pc' = "idle"
    /\ UNCHANGED <<esp32, samples, msg, pubClient, subClient, i, sender_found, pins>>

\* pubjd.clear(); deserializeJson reports an error (malformed or too large a
\* payload): the failure message, then while(true); - the compilers of the
\* Arduino cores keep that loop, so the sketch stays in it.
ParseFail ==
    /\ pc = "parse"
    /\ pubjd' = JNull
    /\ log' = log \o <<Ev("deserializeJson", 0, 0),
                       E0("deserializeJson() failed with code "),
                       E0("println(error.c_str())")>>
    /\ pc' = "halted"
    /\ UNCHANGED <<esp32, samples, msg, pubClient, subClient, i, sender_found, pins>>

\* pubjd.clear(); deserializeJson succeeds; dumpMessage is entered.
ParseOk ==
    /\ pc = "parse"
    /\ \E d \in Docs : pubjd' = d
    /\ log' = log \o <<Ev("deserializeJson", 1, 0), E0("dumpMessage")>>
    /\ i' = 0
    /\ sender_found' = FALSE
    /\ pc' = "dump"
    /\ UNCHANGED <<esp32, samples, msg, pubClient, subClient, pins>>

DumpMarker_PostIncrement ==
    /\ pc = "dump"
    /\ i < Len(Elements(pubjd))
    /\ i' = i + 1
    /\ log' = log \o <<Ev("Msg #", i, 0)>>
    /\ pc' = "pwm"
    /\ UNCHANGED <<esp32, samples, msg, pubClient, subClient, pubjd,
                   sender_found, pins>>

\* dumpMessage, next element of the range-for: "Msg #" and ++i.
DumpMarker ==
    /\ pc = "dump"
    /\ i < Len(Elements(pubjd))
    /\ i' = i + 1
    /\ log' = log \o <<Ev("Msg #", i + 1, 0)>>
    /\ pc' = "pwm"
    /\ UNCHANGED <<esp32, samples, msg, pubClient, subClient, pubjd,
                   sender_found, pins>>

\* dumpMessage: processPwmInfo(obj)
ProcessPwm ==
    /\ pc = "pwm"
    /\ LET r == processPwmInfo(Elements(pubjd)[i], pins, esp32)
       IN  /\ pins' = r.pins
           /\ log' = log \o <<E0("processPwmInfo")>> \o r.out
    /\ pc' = "sender"
    /\ UNCHANGED <<esp32, samples, msg, pubClient, subClient, pubjd, i,
                   sender_found>>

\* dumpMessage: the rest of the loop body, from JsonObject sender = obj["sender"]
DumpSender ==
    /\ pc = "sender"
    /\ LET r == dumpSender(Elements(pubjd)[i])
       IN  /\ log' = log \o r.out
           /\ sender_found' = (sender_found \/ r.found)
           /\ pc' = IF r.ret THEN "release" ELSE "dump"
    /\ UNCHANGED <<esp32, samples, msg, pubClient, subClient, pubjd, i, pins>>

DumpEnd_AlwaysComplains ==
    /\ pc = "dump"
    /\ i = Len(Elements(pubjd))
    /\ log' = log \o <<E0("sender not acquired"), Ev("delay", RetryDelay, 0)>>
    /\ pc' = "release"
    /\ UNCHANGED <<esp32, samples, msg, pubClient, subClient, pubjd, i,
                   sender_found, pins>>

\* dumpMessage: the range-for is exhausted; if (!sender_found) ...
DumpEnd ==
    /\ pc = "dump"
    /\ i = Len(Elements(pubjd))
    /\ log' = IF sender_found THEN log
              ELSE log \o <<E0("sender not acquired"), Ev("delay", RetryDelay, 0)>>
    /\ pc' = "release"
    /\ UNCHANGED <<esp32, samples, msg, pubClient, subClient, pubjd, i,
                   sender_found, pins>>

\* dumpMessage has returned: subclient->stop() and "--subscribe--".
Release ==
    /\ pc = "release"
    /\ subClient' = "stopped"
    /\ log' = log \o <<E0("subclient->stop"), E0("--subscribe--")>>
    /\ pc' = "sleep"
    /\ UNCHANGED <<esp32, samples, msg, pubClient, pubjd, i, sender_found, pins>>

\* delay(10000) and the end of loop().
Sleep ==
    /\ pc = "sleep"
    /\ log' = log \o <<Ev("delay", LoopDelay, 0)>>
    /\ pc' = "idle"
    /\ UNCHANGED <<esp32, samples, msg, pubClient, subClient, pubjd, i,
                   sender_found, pins>>

Next ==
    \/ LoopBegin
    \/ PublishFail
    \/ PublishOk
    \/ PubStop
    \/ SubscribeFail
    \/ SubscribeOk
    \/ ParseFail
    \/ ParseOk
    \/ DumpMarker
    \/ ProcessPwm
    \/ DumpSender
    \/ DumpEnd
    \/ Release
    \/ Sleep

Spec == Init /\ [][Next]_vars

\* The platform calls loop() again whenever it returns, and every statement of
\* loop() that can run does run: each step that is possible is eventually taken.
SpecLive == Spec /\ WF_vars(Next)


(***************************************************************************)
(* Reading the trace.                                                      *)
(***************************************************************************)
Idx(k) == {j \in 1..Len(log) : log[j].k = k}
Has(k) == Idx(k) # {}
Count(k) == Cardinality(Idx(k))
HasEv(e) == \E j \in 1..Len(log) : log[j] = e

\* the elements of the array being dumped
Elems == Elements(pubjd)

\* dumpMessage was entered in this invocation of loop(): pubjd is the document
\* the trace is about
InDump == Has("dumpMessage")

\* the dump is over (by its end or by an early return)
DumpLeft == InDump /\ pc \in {"release", "sleep", "idle"}

\* the k-th item has been through the whole loop body
SenderStepDone(k) == k < i \/ (k = i /\ pc \notin {"pwm", "sender"})

\* the part of the trace that belongs to the k-th item: from its index marker
\* to the next marker (or the end of the trace)
SegFrom(k) == CHOOSE j \in Idx("Msg #") : log[j].a = k
SegTo(k) == IF \E j \in Idx("Msg #") : j > SegFrom(k)
            THEN (CHOOSE j \in Idx("Msg #") :
                     j > SegFrom(k) /\ \A m \in Idx("Msg #") : m > SegFrom(k) => j <= m) - 1
            ELSE Len(log)

HasSender(item) == IsObj(Get(item, "sender"))
MissingMac(item) == HasSender(item) /\ "mac_last_byte" \notin DOMAIN Get(item, "sender").m
MissingAnalog(item) == HasSender(item) /\ ~MissingMac(item) /\ ~IsArr(Get(item, "analog"))
ShortAnalog(item) ==
    /\ HasSender(item) /\ ~MissingMac(item)
    /\ IsArr(Get(item, "analog")) /\ Len(Get(item, "analog").e) < 3
Incomplete(item) == MissingMac(item) \/ MissingAnalog(item) \/ ShortAnalog(item)
DiagOf(item) == IF MissingMac(item) THEN "mac_last_byte not acquired"
                ELSE IF MissingAnalog(item) THEN "analog not acquired"
                ELSE "analog[2] not acquired"
AbortDiags == {"mac_last_byte not acquired", "analog not acquired",
               "analog[2] not acquired"}

\* the key a pin is looked up under
PinKey(p) == IF p = 8 THEN "8" ELSE IF p = 9 THEN "9" ELSE "3"

\* the step that runs processPwmInfo on the i-th item, and what it appends
PwmStep == pc = "pwm" /\ pc' = "sender"
PwmItem == Elems[i]
Appended == SubSeq(log', Len(log) + 1, Len(log'))
WritesTo(p) == {j \in 1..Len(Appended) : Appended[j].k = "analogWrite" /\ Appended[j].a = p}

\* what the claim about processPwmInfo asks of one call, pin by pin
PwmApplied ==
    \A p \in AllPins :
        LET entry == Get(Get(PwmItem, "pwm"), PinKey(p))
        IN  IF p \in {8, 9} /\ entry.t = "int"
            THEN /\ Cardinality(WritesTo(p)) = 1
                 /\ \A j \in WritesTo(p) : Appended[j].b = entry.v
                 /\ pins'[p] = entry.v
            ELSE /\ WritesTo(p) = {}
                 /\ pins'[p] = pins[p]

\* the kinds of event that only dumpMessage and processPwmInfo produce
DumpKinds ==
    {"dumpMessage", "Msg #", "processPwmInfo", "no pwm data", " setting pin ",
     " to value ", "pinMode", "analogWrite", " mac_last_byte: ",
     "print mac_last_byte", " A2: ", "print analog[2]", "println",
     "sender not acquired"} \cup AbortDiags

\* the items with an incomplete sender, the first of them, and the kinds of
\* event that may follow a dump
Bad == {k \in 1..Len(Elems) : Incomplete(Elems[k])}
FirstBad == CHOOSE k \in Bad : \A m \in Bad : k <= m
AfterDump == {"delay", "subclient->stop", "--subscribe--"}

NoSenderAnywhere == \A k \in 1..Len(Elems) : ~HasSender(Elems[k])

(***************************************************************************)
(* C8.  createMessage: for any six samples the document loop() gets from   *)
(* createMessage has exactly the keys sender and analog; analog holds the  *)
(* six samples analogRead returned, channel 0 first; sender.name is        *)
(* "Arduino" and sender.mac_last_byte is 237, the last byte of mac.        *)
(***************************************************************************)
Orig_C8_createMessage ==
    pc \in {"publish", "pub_stop", "crashed"} =>
        /\ pc # "crashed"
        /\ IsObj(msg)
        /\ DOMAIN msg.m = {"sender", "analog"}
        /\ IsArr(msg.m["analog"])
        /\ Len(msg.m["analog"].e) = 6
        /\ \A j \in 0..5 : msg.m["analog"].e[j + 1] = JInt(samples[j])
        /\ IsObj(msg.m["sender"])
        /\ Get(msg.m["sender"], "name") = JStr(Arduino)
        /\ Get(msg.m["sender"], "mac_last_byte") = JInt(237)

\* What does hold: the document createMessage builds inside, before it
\* returns, is the one the claim describes, and it fits the pool.
Inv_BuiltMessage ==
    \A rd \in SampleVectors :
        buildMessage(rd) =
            JObj([k \in {"sender", "analog"} |->
                    IF k = "sender"
                    THEN JObj([n \in {"name", "mac_last_byte"} |->
                                 IF n = "name" THEN JStr(Arduino) ELSE JInt(237)])
                    ELSE JArr([j \in 1..6 |-> JInt(rd[j - 1])])])

(***************************************************************************)
(* C1 as stated.  processPwmInfo on an item whose pwm is an object: a      *)
(* target pin (8, 9) is written if and only if pwm has an integer entry    *)
(* under the pin's decimal string, and then with exactly that integer; any *)
(* other pin keeps its value and is not written.                           *)
(***************************************************************************)
Orig_C1_pwmApplied ==
    [][(PwmStep /\ IsObj(Get(PwmItem, "pwm"))) => PwmApplied]_vars

(***************************************************************************)
(* C1 amended.  The same, on every build but ARDUINO_ARCH_ESP32; on the    *)
(* ESP32 build processPwmInfo writes no pin at all and only prints the     *)
(* pin and the value it found.                                             *)
(***************************************************************************)
Thm_C1_pwmApplied ==
    [][(PwmStep /\ IsObj(Get(PwmItem, "pwm"))) =>
          IF esp32
          THEN /\ pins' = pins
               /\ \A p \in AllPins : WritesTo(p) = {}
               /\ \A p \in {8, 9} :
                     LET entry == Get(Get(PwmItem, "pwm"), PinKey(p))
                     IN  (entry.t = "int") <=>
                            \E j \in 1..(Len(Appended) - 1) :
                                /\ Appended[j] = Ev(" setting pin ", p, 0)
                                /\ Appended[j + 1] = Ev(" to value ", AsInt(entry), 0)
          ELSE PwmApplied]_vars

\* {"pwm": {"8": 200}} has been applied: pin 8 is 200, and pin 9 still has the
\* 100 an earlier item gave it
Wit_C1_pwmApplied ==
    /\ pc = "sender"
    /\ ~esp32
    /\ Get(PwmItem, "pwm") = Pwm8
    /\ log[Len(log)] = Ev("analogWrite", 8, 200)
    /\ pins[8] = 200
    /\ pins[9] = 100

(***************************************************************************)
(* C2.  processPwmInfo on an item without a pwm object (key missing, value *)
(* no object, item no object): no pin changes, no pin is written, and the  *)
(* call prints exactly one line, "no pwm data".                            *)
(***************************************************************************)
Thm_C2_noPwmData ==
    [][(PwmStep /\ ~IsObj(Get(PwmItem, "pwm"))) =>
          /\ pins' = pins
          /\ Appended = <<E0("processPwmInfo"), E0("no pwm data")>>]_vars

\* the applier has run on an item that is not even an object
Wit_C2_noPwmData ==
    /\ pc = "sender"
    /\ PwmItem = JInt(7)
    /\ log[Len(log)] = E0("no pwm data")
    /\ pins[8] = 200


(***************************************************************************)
(* C3.  A failed deserializeJson prints the failure message and halts      *)
(* loop() for good: the message is the last thing the trace ever holds,    *)
(* and from the halted state nothing changes any more - no output, no      *)
(* dump, no pin write, no publish, no subscribe.                           *)
(***************************************************************************)
Thm_C3_parseFailHalts ==
    /\ [](HasEv(Ev("deserializeJson", 0, 0)) =>
             /\ pc = "halted"
             /\ Len(log) >= 3
             /\ log[Len(log) - 2] = Ev("deserializeJson", 0, 0)
             /\ log[Len(log) - 1] = E0("deserializeJson() failed with code ")
             /\ log[Len(log)] = E0("println(error.c_str())")
             /\ ~InDump)
    /\ [][pc = "halted" => UNCHANGED vars]_vars

Wit_C3_parseFailHalts ==
    /\ pc = "halted"
    /\ HasEv(Ev("deserializeJson", 0, 0))
    /\ pins[8] = 200

(***************************************************************************)
(* C4 as stated.  No handle obtained in an iteration is still open once    *)
(* the iteration has been left or can make no further progress.            *)
(***************************************************************************)
Orig_C4_handlesReleased ==
    pc \in {"idle", "halted"} => (pubClient # "open" /\ subClient # "open")

(***************************************************************************)
(* What does hold of the handles: each is released on every path by which  *)
(* loop() returns; only the parse failure halt keeps the subscribe handle. *)
(***************************************************************************)
Inv_Handles ==
    /\ pc = "idle" => (pubClient # "open" /\ subClient # "open")
    /\ pubClient = "open" <=> pc = "pub_stop"
    /\ subClient = "open" <=> pc \in {"parse", "dump", "pwm", "sender", "release", "halted"}
    /\ pc = "halted" => subClient = "open" /\ pubClient = "stopped"

(***************************************************************************)
(* C7.  Within one invocation of loop() the phases come in the order       *)
(* publish, subscribe, parse, dump, release, sleep.  A failed publish ends *)
(* the invocation after its diagnostic and delay with no subscribe; a      *)
(* failed subscribe ends it the same way with no parse, dump or pin write. *)
(* A subscribe follows a successful publish, a dump a successful subscribe *)
(* and a successful parse.                                                 *)
(***************************************************************************)
Thm_C7_phaseOrder ==
    /\ Count("publish") <= 1 /\ Count("subscribe") <= 1 /\ Count("deserializeJson") <= 1
    /\ \A j \in 1..Len(log) :
          /\ log[j].k = "subscribe" =>
                \E m \in 1..(j - 1) : log[m] = Ev("publish", 1, 0)
          /\ log[j].k = "deserializeJson" =>
                \E m \in 1..(j - 1) : log[m] = Ev("subscribe", 1, 0)
          /\ log[j].k \in DumpKinds =>
                \E m \in 1..(j - 1) : log[m] = Ev("deserializeJson", 1, 0)
          /\ log[j].k = "subclient->stop" =>
                /\ \E m \in 1..(j - 1) : log[m].k = "dumpMessage"
                /\ \A m \in (j + 1)..Len(log) : log[m].k \notin DumpKinds
          /\ log[j] = Ev("delay", LoopDelay, 0) =>
                /\ j = Len(log)
                /\ pc = "idle"
                /\ \E m \in 1..(j - 1) : log[m].k = "subclient->stop"
          /\ log[j] = Ev("publish", 0, 0) =>
                /\ pc = "idle"
                /\ SubSeq(log, j + 1, Len(log)) =
                      <<E0("publishing error"), Ev("delay", RetryDelay, 0)>>
          /\ log[j] = Ev("subscribe", 0, 0) =>
                /\ pc = "idle"
                /\ SubSeq(log, j + 1, Len(log)) =
                      <<E0("subscription error"), Ev("delay", RetryDelay, 0)>>

\* a whole iteration has run: every phase is in the trace
Wit_C7_phaseOrder ==
    /\ pc = "idle"
    /\ Len(log) > 0
    /\ log[Len(log)] = Ev("delay", LoopDelay, 0)
    /\ Has("analogWrite")
    /\ Count("Msg #") = 2

(***************************************************************************)
(* C10.  The parse failure halt is the only way the driver stops: wherever *)
(* no further step is possible, a failed parse is in the trace.            *)
(***************************************************************************)
Orig_C10_onlyParseFailStops ==
    (~ENABLED Next) => HasEv(Ev("deserializeJson", 0, 0))

\* What does hold: unless the read of createMessage's result ends the sketch,
\* every invocation of loop() ends, and every return is followed by a new
\* call of createMessage; a halt has a failed parse in its trace.
Live_RetryUnlessStopped ==
    /\ [](pc = "halted" => HasEv(Ev("deserializeJson", 0, 0)))
    /\ [](pc \notin {"halted", "crashed"} => ENABLED Next)
    /\ (pc \notin {"idle", "halted", "crashed"}) ~> (pc \in {"idle", "halted"})
    /\ (pc = "idle") ~> (pc \in {"publish", "crashed"})

(***************************************************************************)
(* C5.  The first item, in array order, that has a sender object but is    *)
(* incomplete ends the dump: its diagnostic (mac_last_byte, analog or      *)
(* analog[2] not acquired, whichever test fails first) is printed once,    *)
(* its analog value is not, "sender not acquired" is not, and after the    *)
(* diagnostic the trace holds nothing of the dump any more - no index      *)
(* marker, no processPwmInfo, no pin write - only the delay and the        *)
(* release that follow the return.                                         *)
(***************************************************************************)
Thm_C5_incompleteAborts ==
    (InDump /\ Bad # {}) =>
        /\ i <= FirstBad
        /\ \A j \in Idx("Msg #") : log[j].a <= FirstBad
        /\ ~Has("sender not acquired")
        /\ SenderStepDone(FirstBad) =>
              /\ pc \in {"release", "sleep", "idle"}
              /\ \A d \in AbortDiags :
                    Count(d) = (IF d = DiagOf(Elems[FirstBad]) THEN 1 ELSE 0)
              /\ \A j \in Idx(DiagOf(Elems[FirstBad])) :
                    /\ j > SegFrom(FirstBad)
                    /\ log[j + 1] = Ev("delay", RetryDelay, 0)
                    /\ \A m \in (j + 1)..Len(log) : log[m].k \in AfterDump
              /\ \A j \in Idx("print analog[2]") : j < SegFrom(FirstBad)

\* the first of two items has a sender without analog: the dump was left there
Wit_C5_incompleteAborts ==
    /\ pc = "release"
    /\ Len(Elems) = 2
    /\ i = 1
    /\ Has("analog not acquired")
    /\ Has("analogWrite")

(***************************************************************************)
(* C6.  If no item has a sender object, every item is processed in order   *)
(* (index marker, then processPwmInfo) and only then "sender not acquired" *)
(* is printed, once, and the dump returns.  If a processed item had a      *)
(* sender object, "sender not acquired" is never printed by that dump.     *)
(***************************************************************************)
Thm_C6_senderNotAcquired ==
    InDump =>
        /\ (NoSenderAnywhere /\ pc \in {"dump", "pwm", "sender"}) =>
              ~Has("sender not acquired")
        /\ (NoSenderAnywhere /\ DumpLeft) =>
              /\ Count("Msg #") = Len(Elems)
              /\ Count("processPwmInfo") = Len(Elems)
              /\ \A k \in 1..Len(Elems) :
                    /\ log[SegFrom(k)].a = k
                    /\ log[SegFrom(k) + 1] = E0("processPwmInfo")
                    /\ k > 1 => SegFrom(k - 1) < SegFrom(k)
              /\ Count("sender not acquired") = 1
              /\ \A j \in Idx("sender not acquired") :
                    /\ \A m \in Idx("Msg #") \cup Idx("processPwmInfo") : m < j
                    /\ log[j + 1] = Ev("delay", RetryDelay, 0)
                    /\ \A m \in (j + 1)..Len(log) : log[m].k \in AfterDump
              /\ \A d \in AbortDiags : ~Has(d)
        /\ (\E k \in 1..Len(Elems) : HasSender(Elems[k]) /\ SenderStepDone(k)) =>
              ~Has("sender not acquired")

\* two items without a sender were dumped and the diagnostic printed
Wit_C6_senderNotAcquired ==
    /\ pc = "release"
    /\ Len(Elems) = 2
    /\ NoSenderAnywhere
    /\ Has("sender not acquired")
    /\ Count("processPwmInfo") = 2

(***************************************************************************)
(* C9.  Items are visited in array order and the k-th visited item prints  *)
(* marker k.  processPwmInfo runs right after the marker and before the    *)
(* item's sender is looked at, so the item's PWM commands are carried out  *)
(* whatever its sender is like.  An item without a sender object never     *)
(* ends the dump: the dump stops early only at an incomplete sender.       *)
(***************************************************************************)
Thm_C9_itemOrder ==
    InDump =>
        /\ \A j \in Idx("Msg #") :
              /\ log[j].a = Cardinality({m \in Idx("Msg #") : m <= j})
              /\ j < Len(log) => log[j + 1] = E0("processPwmInfo")
        /\ \A j \in Idx("processPwmInfo") : log[j - 1].k = "Msg #"
        /\ Count("Msg #") = i
        /\ \A j \in Idx(" mac_last_byte: ") :
              \E m \in Idx("processPwmInfo") :
                  m < j /\ \A n \in Idx("Msg #") : ~(m < n /\ n < j)
        /\ \A k \in 1..i :
              (k < i \/ pc # "pwm") =>
                 \A p \in {8, 9} :
                    LET entry == Get(Get(Elems[k], "pwm"), PinKey(p))
                    IN  entry.t = "int" =>
                           \E j \in (SegFrom(k) + 2)..(SegTo(k) - 1) :
                              /\ log[j] = Ev(" setting pin ", p, 0)
                              /\ log[j + 1] = Ev(" to value ", entry.v, 0)
                              /\ ~esp32 => log[j + 3] = Ev("analogWrite", p, entry.v)
                              /\ \A m \in Idx(" mac_last_byte: ") :
                                    m > SegFrom(k) => m > j
        /\ \A k \in 1..i :
              (~HasSender(Elems[k]) /\ SenderStepDone(k)) =>
                  \/ k < i
                  \/ pc = "dump"
                  \/ k = Len(Elems)
        /\ DumpLeft => (i = Len(Elems) \/ (i >= 1 /\ Incomplete(Elems[i])))

\* an item without a sender had its PWM command applied, and the next item,
\* whose sender is incomplete, had its own applied before the dump was left
Wit_C9_itemOrder ==
    /\ pc = "release"
    /\ ~esp32
    /\ i = 2
    /\ ~HasSender(Elems[1])
    /\ MissingMac(Elems[2])
    /\ Count("analogWrite") = 2
    /\ Has("mac_last_byte not acquired")

====
